---- MODULE Spec2Model ----
(***************************************************************************)
(* A model of LazyCollection (src/main.py): a pull-based pipeline of       *)
(* generator stages over a source.  The source is a list or range (each    *)
(* iter() starts a new cursor) or a one-shot iterator.  Every chained      *)
(* operator wraps a generator, which is single-pass and keeps its own      *)
(* local state (enumerate's counter, the chunk under construction, the     *)
(* seen set of distinct).  A terminal operator pulls from the top stage,   *)
(* and each stage pulls from the one below it.                             *)
(*                                                                         *)
(* pipe.pulls counts the elements handed out by source cursors, pipe.calls *)
(* logs every predicate/transform/key invocation <<function, argument>>,   *)
(* and a stage's out counts the elements it has yielded.  elems is the     *)
(* kind of element the top stage yields ("int", or "group" for chunks and  *)
(* tuples), chain the calls of chained operators made so far, nchained the *)
(* number of generator stages they built, nops the number of terminal      *)
(* operators run, pre the pipeline as the last terminal operator found it  *)
(* and result what that operator returned.                                 *)
(***************************************************************************)
EXTENDS Integers, Sequences, FiniteSets, TLC

VARIABLES pipe, elems, chain, nchained, nops, pre, result

vars == <<pipe, elems, chain, nchained, nops, pre, result>>

\* ---------------------------------------------------------------- bounds
MaxLen == 3
MaxVal == 1
RangeN == 2
MaxStages == 2
MaxN == 2
MaxPage == 2
MaxOps == 2

Vals == 0..MaxVal

Min(a, b) == IF a <= b THEN a ELSE b
Max(a, b) == IF a >= b THEN a ELSE b

RECURSIVE SeqsUpTo(_, _)
SeqsUpTo(S, n) ==
  IF n = 0 THEN {<<>>}
  ELSE LET prev == SeqsUpTo(S, n - 1)
       IN prev \cup {Append(s, x) : s \in {t \in prev : Len(t) = n - 1}, x \in S}

\* ------------------------------------------------- functions of the callers
\* The lambdas the callers pass (src/examples.py): x > 0, x % 2 == 0, the
\* default predicate of any(), x * 2, a transform returning two sub-items,
\* and the keys x % 2 and x.
Pred(fn, x) ==
  CASE fn = "positive" -> x > 0
    [] fn = "even" -> x % 2 = 0
    [] fn = "true" -> TRUE

Transform(fn, x) ==
  CASE fn = "double" -> x * 2
    [] fn = "pair" -> <<x, x + 1>>

Key(fn, x) ==
  CASE fn = "parity" -> x % 2
    [] fn = "self" -> x

\* ------------------------------------------------------------ construction
\* classmethod range: with stop omitted (modelled as <<>>), start is the stop.
RECURSIVE Upto(_, _)
Upto(a, b) == IF a >= b THEN <<>> ELSE <<a>> \o Upto(a + 1, b)

RECURSIVE Downto(_, _)
Downto(a, b) == IF a <= b THEN <<>> ELSE <<a>> \o Downto(a - 1, b)

PyRange(start, stop, step) ==
  IF step = 1 THEN Upto(start, stop) ELSE Downto(start, stop)

range(start, stop, step) ==
  IF stop = <<>> THEN PyRange(0, start, step)
  ELSE PyRange(start, stop[1], step)

\* __init__: the wrapper only stores the iterable.
LazyCollection(iterable, restartable) ==
  [src |-> iterable, restartable |-> restartable, pos |-> 0, pulls |-> 0,
   calls |-> <<>>, stages |-> <<>>]

\* A generator stage as created by an operator: nothing has run yet.
Stage(kind, n, fn) ==
  [kind |-> kind, n |-> n, fn |-> fn, i |-> 0, buf |-> <<>>, seen |-> {},
   done |-> FALSE, out |-> 0]

Top(w) == Len(w.stages)

\* __iter__: iter(self._source).  A list or range source gives a new cursor,
\* a generator (every chained stage) or iterator source gives itself.
Iter(w) ==
  IF Top(w) = 0 /\ w.restartable THEN [w EXCEPT !.pos = 0] ELSE w

\* ------------------------------------------------------------------- pulls
Yield(w, k, v) ==
  [ok |-> TRUE, val |-> v, w |-> [w EXCEPT !.stages[k].out = @ + 1]]

Finish(w, k) ==
  [ok |-> FALSE, val |-> 0, w |-> [w EXCEPT !.stages[k].done = TRUE]]

Logged(w, fn, x) == [w EXCEPT !.calls = Append(@, <<fn, x>>)]

\* next() on the source's cursor.
PullSource(w) ==
  IF w.pos < Len(w.src)
  THEN [ok |-> TRUE, val |-> w.src[w.pos + 1],
        w |-> [w EXCEPT !.pos = @ + 1, !.pulls = @ + 1]]
  ELSE [ok |-> FALSE, val |-> 0, w |-> w]

\* The list zip() is given: n elements, its cursor is the stage's i.
ZipOther(n) == [j \in 1..n |-> 10 + j]

RECURSIVE Pull(_, _)
RECURSIVE PullFilter(_, _)
RECURSIVE PullFlatMap(_, _)
RECURSIVE PullSkip(_, _)
RECURSIVE PullChunk(_, _)
RECURSIVE PullDistinct(_, _)

\* filter: item for item in self if predicate(item)
PullFilter(w, k) ==
  LET r == Pull(w, k - 1) IN
  IF ~r.ok THEN Finish(r.w, k)
  ELSE LET fn == r.w.stages[k].fn
           w2 == Logged(r.w, fn, r.val)
       IN IF Pred(fn, r.val) THEN Yield(w2, k, r.val) ELSE PullFilter(w2, k)

\* map: transform(item) for item in self
PullMap(w, k) ==
  LET r == Pull(w, k - 1) IN
  IF ~r.ok THEN Finish(r.w, k)
  ELSE LET fn == r.w.stages[k].fn
       IN Yield(Logged(r.w, fn, r.val), k, Transform(fn, r.val))

\* flat_map: subitem for item in self for subitem in transform(item);
\* buf holds the sub-items of the current item not yet yielded.
PullFlatMap(w, k) ==
  LET s == w.stages[k] IN
  IF s.buf # <<>>
  THEN Yield([w EXCEPT !.stages[k].buf = Tail(@)], k, Head(s.buf))
  ELSE LET r == Pull(w, k - 1) IN
       IF ~r.ok THEN Finish(r.w, k)
       ELSE PullFlatMap(
              [Logged(r.w, s.fn, r.val) EXCEPT
                 !.stages[k].buf = Transform(s.fn, r.val)], k)

\* take_generator: for i, item in enumerate(self): if i >= n: break; yield item
PullTake(w, k) ==
  LET r == Pull(w, k - 1) IN
  IF ~r.ok THEN Finish(r.w, k)
  ELSE LET i == r.w.stages[k].i
           w2 == [r.w EXCEPT !.stages[k].i = @ + 1]
       IN IF i >= w2.stages[k].n THEN Finish(w2, k) ELSE Yield(w2, k, r.val)

\* skip with the comparison i > n: one element too many is discarded.
RECURSIVE PullSkipLate(_, _)
PullSkipLate(w, k) ==
  LET r == Pull(w, k - 1) IN
  IF ~r.ok THEN Finish(r.w, k)
  ELSE LET i == r.w.stages[k].i
           w2 == [r.w EXCEPT !.stages[k].i = @ + 1]
       IN IF i > w2.stages[k].n THEN Yield(w2, k, r.val) ELSE PullSkipLate(w2, k)

\* skip_generator: for i, item in enumerate(self): if i >= n: yield item
PullSkip(w, k) ==
  LET r == Pull(w, k - 1) IN
  IF ~r.ok THEN Finish(r.w, k)
  ELSE LET i == r.w.stages[k].i
           w2 == [r.w EXCEPT !.stages[k].i = @ + 1]
       IN IF i >= w2.stages[k].n THEN Yield(w2, k, r.val) ELSE PullSkip(w2, k)

\* chunk without the final "if chunk: yield chunk".
RECURSIVE PullChunkNoTail(_, _)
PullChunkNoTail(w, k) ==
  LET r == Pull(w, k - 1) IN
  IF ~r.ok THEN Finish(r.w, k)
  ELSE LET chunk == Append(r.w.stages[k].buf, r.val) IN
       IF Len(chunk) = r.w.stages[k].n
       THEN Yield([r.w EXCEPT !.stages[k].buf = <<>>], k, chunk)
       ELSE PullChunkNoTail([r.w EXCEPT !.stages[k].buf = chunk], k)

\* chunk_generator: append each item, yield the chunk when len(chunk) == size,
\* and yield a non-empty last chunk when the upstream ends.  After that last
\* yield the generator only returns, so the stage is finished with it.
PullChunk(w, k) ==
  LET r == Pull(w, k - 1) IN
  IF ~r.ok
  THEN IF r.w.stages[k].buf # <<>>
       THEN Yield([r.w EXCEPT !.stages[k].buf = <<>>, !.stages[k].done = TRUE],
                  k, r.w.stages[k].buf)
       ELSE Finish(r.w, k)
  ELSE LET chunk == Append(r.w.stages[k].buf, r.val) IN
       IF Len(chunk) = r.w.stages[k].n
       THEN Yield([r.w EXCEPT !.stages[k].buf = <<>>], k, chunk)
       ELSE PullChunk([r.w EXCEPT !.stages[k].buf = chunk], k)

\* distinct: item for item in self if not (item in seen or seen.add(item));
\* seen is the set created by the call of distinct().
PullDistinct(w, k) ==
  LET r == Pull(w, k - 1) IN
  IF ~r.ok THEN Finish(r.w, k)
  ELSE IF r.val \in r.w.stages[k].seen THEN PullDistinct(r.w, k)
       ELSE Yield([r.w EXCEPT !.stages[k].seen = @ \cup {r.val}], k, r.val)

\* zip(self, other): next(self) first, then next(other); either end ends it.
PullZip(w, k) ==
  LET r == Pull(w, k - 1) IN
  IF ~r.ok THEN Finish(r.w, k)
  ELSE LET s == r.w.stages[k] IN
       IF s.i >= s.n THEN Finish(r.w, k)
       ELSE Yield([r.w EXCEPT !.stages[k].i = @ + 1], k,
                  <<r.val, ZipOther(s.n)[s.i + 1]>>)

\* enumerate(self)
PullEnumerate(w, k) ==
  LET r == Pull(w, k - 1) IN
  IF ~r.ok THEN Finish(r.w, k)
  ELSE Yield([r.w EXCEPT !.stages[k].i = @ + 1], k, <<r.w.stages[k].i, r.val>>)

\* next() on stage k (0: the source).  A finished generator stays finished.
Pull(w, k) ==
  IF k = 0 THEN PullSource(w)
  ELSE IF w.stages[k].done THEN [ok |-> FALSE, val |-> 0, w |-> w]
  ELSE LET kind == w.stages[k].kind IN
       CASE kind = "filter" -> PullFilter(w, k)
         [] kind = "map" -> PullMap(w, k)
         [] kind = "flat_map" -> PullFlatMap(w, k)
         [] kind = "take" -> PullTake(w, k)
         [] kind = "skip" -> PullSkip(w, k)
         [] kind = "chunk" -> PullChunk(w, k)
         [] kind = "distinct" -> PullDistinct(w, k)
         [] kind = "zip" -> PullZip(w, k)
         [] kind = "enumerate" -> PullEnumerate(w, k)

\* ------------------------------------------------------ chained operators
\* Every operator returns a new LazyCollection around a generator: in the
\* model, the pipeline with one more stage on top.
\* An operator that runs its generator to the first yield when it is chained.
ChainedPrimed(w, stage) ==
  LET w2 == [w EXCEPT !.stages = Append(@, stage)] IN Pull(w2, Top(w2)).w

Chained(w, stage) == [w EXCEPT !.stages = Append(@, stage)]

filter(w, predicate) == Chained(w, Stage("filter", 0, predicate))

map(w, transform) == Chained(w, Stage("map", 0, transform))

flat_map(w, transform) == Chained(w, Stage("flat_map", 0, transform))

take(w, n) == Chained(w, Stage("take", n, ""))

skip(w, n) == Chained(w, Stage("skip", n, ""))

chunk(w, size) == Chained(w, Stage("chunk", size, ""))

\* paginate with a zero-based page.
paginateZeroBased(w, page, per_page) == take(skip(w, page * per_page), per_page)

paginate(w, page, per_page) == take(skip(w, (page - 1) * per_page), per_page)

distinct(w) == Chained(w, Stage("distinct", 0, ""))

zip(w, n) == Chained(w, Stage("zip", n, ""))

enumerate(w) == Chained(w, Stage("enumerate", 0, ""))

\* ------------------------------------------------------ terminal operators
\* list(self): next() until the iterator is exhausted.
RECURSIVE Drain(_, _)
Drain(w, acc) ==
  LET r == Pull(w, Top(w)) IN
  IF r.ok THEN Drain(r.w, Append(acc, r.val)) ELSE [val |-> acc, w |-> r.w]

collect(w) == Drain(Iter(w), <<>>)

\* first as self.collect()[0]: the whole sequence is drained.
firstByCollect(w) ==
  LET c == collect(w) IN
  [val |-> IF c.val = <<>> THEN <<>> ELSE <<c.val[1]>>, w |-> c.w]

\* for item in self: return item; return None.  None is <<>>, an item <<item>>.
first(w) ==
  LET r == Pull(Iter(w), Top(w)) IN
  [val |-> IF r.ok THEN <<r.val>> ELSE <<>>, w |-> r.w]

\* sum(1 for _ in self)
RECURSIVE CountLoop(_, _)
CountLoop(w, n) ==
  LET r == Pull(w, Top(w)) IN
  IF r.ok THEN CountLoop(r.w, n + 1) ELSE [val |-> n, w |-> r.w]

count(w) == CountLoop(Iter(w), 0)

\* functools.reduce(reducer, self, initial), with reducer acc + x * x
RECURSIVE ReduceLoop(_, _)
ReduceLoop(w, acc) ==
  LET r == Pull(w, Top(w)) IN
  IF r.ok THEN ReduceLoop(r.w, acc + r.val * r.val) ELSE [val |-> acc, w |-> r.w]

reduce(w, initial) == ReduceLoop(Iter(w), initial)

\* any over a list comprehension: every item is pulled and tested.
RECURSIVE AnyLoopEager(_, _)
AnyLoopEager(w, fn) ==
  LET r == Pull(w, Top(w)) IN
  IF ~r.ok THEN [val |-> FALSE, w |-> r.w]
  ELSE LET rest == AnyLoopEager(Logged(r.w, fn, r.val), fn)
       IN [val |-> Pred(fn, r.val) \/ rest.val, w |-> rest.w]

\* any(predicate(item) for item in self): stops at the first true value.
RECURSIVE AnyLoop(_, _)
AnyLoop(w, fn) ==
  LET r == Pull(w, Top(w)) IN
  IF ~r.ok THEN [val |-> FALSE, w |-> r.w]
  ELSE IF Pred(fn, r.val) THEN [val |-> TRUE, w |-> Logged(r.w, fn, r.val)]
       ELSE AnyLoop(Logged(r.w, fn, r.val), fn)

any(w, predicate) == AnyLoop(Iter(w), predicate)

\* all(predicate(item) for item in self): stops at the first false value.
RECURSIVE AllLoop(_, _)
AllLoop(w, fn) ==
  LET r == Pull(w, Top(w)) IN
  IF ~r.ok THEN [val |-> TRUE, w |-> r.w]
  ELSE IF ~Pred(fn, r.val) THEN [val |-> FALSE, w |-> Logged(r.w, fn, r.val)]
       ELSE AllLoop(Logged(r.w, fn, r.val), fn)

all(w, predicate) == AllLoop(Iter(w), predicate)

\* group_by: the dict is the sequence of its entries in insertion order.
HasKey(d, key) == \E j \in 1..Len(d) : d[j].key = key

\* group_by with result[key].insert(0, item).
PutFront(d, key, item) ==
  LET e == IF HasKey(d, key) THEN d ELSE Append(d, [key |-> key, items |-> <<>>])
  IN [j \in 1..Len(e) |->
        IF e[j].key = key THEN [e[j] EXCEPT !.items = <<item>> \o @] ELSE e[j]]

Put(d, key, item) ==
  LET e == IF HasKey(d, key) THEN d ELSE Append(d, [key |-> key, items |-> <<>>])
  IN [j \in 1..Len(e) |->
        IF e[j].key = key THEN [e[j] EXCEPT !.items = Append(@, item)] ELSE e[j]]

RECURSIVE GroupLoop(_, _, _)
GroupLoop(w, fn, d) ==
  LET r == Pull(w, Top(w)) IN
  IF ~r.ok THEN [val |-> d, w |-> r.w]
  ELSE GroupLoop(Logged(r.w, fn, r.val), fn, Put(d, Key(fn, r.val), r.val))

group_by(w, key_func) == GroupLoop(Iter(w), key_func, <<>>)

\* sorted(self.collect(), reverse=reverse): a stable insertion sort.  The
\* result wraps the sorted list, a new restartable source.
RECURSIVE Insert(_, _, _)
Insert(s, x, reverse) ==
  IF s = <<>> THEN <<x>>
  ELSE IF (IF reverse THEN Head(s) < x ELSE x < Head(s)) THEN <<x>> \o s
       ELSE <<Head(s)>> \o Insert(Tail(s), x, reverse)

RECURSIVE Sorted(_, _)
Sorted(s, reverse) ==
  IF s = <<>> THEN <<>>
  ELSE Insert(Sorted(SubSeq(s, 1, Len(s) - 1), reverse), s[Len(s)], reverse)

sort(w, reverse) ==
  LET c == collect(w) IN
  [LazyCollection(Sorted(c.val, reverse), TRUE) EXCEPT
     !.pulls = c.w.pulls, !.calls = c.w.calls]

\* ----------------------------------------------------------------- actions
Sources ==
  SeqsUpTo(Vals, MaxLen)
    \cup {range(MaxLen, <<>>, 1), range(-RangeN, <<RangeN + 1>>, 1),
          range(RangeN, <<0>>, -1)}

NoResult == [op |-> "none", fn |-> "", val |-> 0]

Call(op, a, b, fn) == [op |-> op, a |-> a, b |-> b, fn |-> fn]

Init ==
  /\ pipe \in {LazyCollection(s, r) : s \in Sources, r \in BOOLEAN}
  /\ elems = "int"
  /\ chain = <<>>
  /\ nchained = 0
  /\ nops = 0
  /\ pre = pipe
  /\ result = NoResult

\* A chained operator: the caller keeps the new collection, of k more stages.
Chain(call, w, ty, k) ==
  /\ nops = 0
  /\ nchained + k <= MaxStages
  /\ pipe' = w
  /\ elems' = ty
  /\ chain' = Append(chain, call)
  /\ nchained' = nchained + k
  /\ pre' = w
  /\ UNCHANGED <<nops, result>>

CallFilter ==
  \E fn \in {"positive", "even"} :
    /\ elems = "int"
    /\ Chain(Call("filter", 0, 0, fn), filter(pipe, fn), "int", 1)

CallMap ==
  /\ elems = "int"
  /\ Chain(Call("map", 0, 0, "double"), map(pipe, "double"), "int", 1)

CallFlatMap ==
  /\ elems = "int"
  /\ Chain(Call("flat_map", 0, 0, "pair"), flat_map(pipe, "pair"), "int", 1)

CallTake ==
  \E n \in -1..MaxN :
    /\ nops = 0
    /\ Chain(Call("take", n, 0, ""), take(pipe, n), elems, 1)

CallSkip ==
  \E n \in -1..MaxN :
    /\ nops = 0
    /\ Chain(Call("skip", n, 0, ""), skip(pipe, n), elems, 1)

CallChunk ==
  \E size \in -1..MaxN :
    /\ nops = 0
    /\ Chain(Call("chunk", size, 0, ""), chunk(pipe, size), "group", 1)

CallPaginate ==
  \E page \in 1..MaxPage, per_page \in 0..MaxN :
    /\ nops = 0
    /\ Chain(Call("paginate", page, per_page, ""),
             paginate(pipe, page, per_page), elems, 2)

CallDistinct ==
  /\ nops = 0
  /\ Chain(Call("distinct", 0, 0, ""), distinct(pipe), elems, 1)

CallZip ==
  \E n \in {1, MaxN} :
    /\ nops = 0
    /\ Chain(Call("zip", n, 0, ""), zip(pipe, n), "group", 1)

CallEnumerate ==
  /\ nops = 0
  /\ Chain(Call("enumerate", 0, 0, ""), enumerate(pipe), "group", 1)

CallSort ==
  \E reverse \in BOOLEAN :
    /\ elems = "int"
    /\ Chain(Call("sort", IF reverse THEN 1 ELSE 0, 0, ""),
             sort(pipe, reverse), "int", 1)

\* A terminal operator on the collection the caller holds.
Terminal(op, fn, r) ==
  /\ pre' = pipe
  /\ pipe' = r.w
  /\ result' = [op |-> op, fn |-> fn, val |-> r.val]
  /\ nops' = nops + 1
  /\ UNCHANGED <<elems, chain, nchained>>

CallCollect ==
  /\ nops < MaxOps
  /\ Terminal("collect", "", collect(pipe))

CallFirst ==
  /\ nops < MaxOps
  /\ Terminal("first", "", first(pipe))

CallCount ==
  /\ nops < MaxOps
  /\ Terminal("count", "", count(pipe))

CallReduce ==
  /\ nops < MaxOps
  /\ elems = "int"
  /\ Terminal("reduce", "", reduce(pipe, 0))

CallAny ==
  \E fn \in {"true", "positive"} :
    /\ nops < MaxOps
    /\ fn = "true" \/ elems = "int"
    /\ Terminal("any", fn, any(pipe, fn))

CallAll ==
  \E fn \in {"positive", "even"} :
    /\ nops < MaxOps
    /\ elems = "int"
    /\ Terminal("all", fn, all(pipe, fn))

CallGroupBy ==
  \E fn \in {"parity", "self"} :
    /\ nops < MaxOps
    /\ elems = "int"
    /\ Terminal("group_by", fn, group_by(pipe, fn))

Next ==
  \/ CallFilter
  \/ CallMap
  \/ CallFlatMap
  \/ CallTake
  \/ CallSkip
  \/ CallChunk
  \/ CallPaginate
  \/ CallDistinct
  \/ CallZip
  \/ CallEnumerate
  \/ CallSort
  \/ CallCollect
  \/ CallFirst
  \/ CallCount
  \/ CallReduce
  \/ CallAny
  \/ CallAll
  \/ CallGroupBy

Spec == Init /\ [][Next]_vars

\* -------------------------------------------------------------- properties
\* What the last terminal operator was applied to: the source elements its
\* stage 1 had not pulled, the sequence the collection still had to yield,
\* the number of elements it took from the collection, and the predicate,
\* transform and key calls made while it ran.
SourceRest(w) == SubSeq(w.src, w.pos + 1, Len(w.src))

Input == collect(pre).val

Consumed ==
  IF Top(pipe) = 0 THEN pipe.pulls - pre.pulls
  ELSE pipe.stages[Top(pipe)].out - pre.stages[Top(pre)].out

NewCalls == SubSeq(pipe.calls, Len(pre.calls) + 1, Len(pipe.calls))

\* Elements of stage k - 1 that stage k has pulled (stage 0: the source).
Out(w, k) == IF k = 0 THEN w.pos ELSE w.stages[k].out

\* The least index of s at which predicate fn has the value want, 0 if none.
FirstAt(s, fn, want) ==
  IF \E j \in 1..Len(s) : Pred(fn, s[j]) = want
  THEN CHOOSE j \in 1..Len(s) :
         /\ Pred(fn, s[j]) = want
         /\ \A i \in 1..(j - 1) : Pred(fn, s[i]) # want
  ELSE 0

RECURSIVE FirstOcc(_)
FirstOcc(s) ==
  IF s = <<>> THEN <<>>
  ELSE LET n == Len(s) IN
       IF \E i \in 1..(n - 1) : s[i] = s[n] THEN FirstOcc(SubSeq(s, 1, n - 1))
       ELSE Append(FirstOcc(SubSeq(s, 1, n - 1)), s[n])

RECURSIVE Flatten(_)
Flatten(g) == IF g = <<>> THEN <<>> ELSE Head(g) \o Flatten(Tail(g))

Having(s, fn, key) ==
  LET Test(x) == Key(fn, x) = key IN SelectSeq(s, Test)

Sorted1 == \E j \in 1..Len(chain) : chain[j].op = "sort"

\* C1: chaining a non-terminal operator other than sort pulls no element from
\* the source and calls no predicate or transform, and while no terminal
\* operator has run and no sort was chained nothing was pulled or called.
LazyChaining ==
  /\ [](pipe.pulls > 0 \/ pipe.calls # <<>> => nops > 0 \/ Sorted1)
  /\ [][Top(pipe') > Top(pipe) =>
          /\ pipe'.pulls = pipe.pulls
          /\ pipe'.calls = pipe.calls
          /\ pipe'.pos = pipe.pos]_vars

LazyChainingWitness ==
  /\ nops = 0
  /\ Len(chain) = MaxStages
  /\ Top(pipe) = MaxStages
  /\ pipe.stages[1].kind = "filter"
  /\ pipe.stages[2].kind = "distinct"
  /\ Len(pipe.src) = MaxLen
  /\ pipe.pulls = 0

\* C2: a take(n) stage never pulls more than max(n, 0) elements from its
\* upstream, and collecting take(n) over a source S returns the first
\* min(max(n, 0), len(S)) elements of S with the cursor of S advanced by
\* exactly that many.
TakeStopsAtN ==
  /\ \A k \in 1..Top(pipe) :
       pipe.stages[k].kind = "take" =>
         Out(pipe, k - 1) <= Max(pipe.stages[k].n, 0)
  /\ (nops = 1 /\ result.op = "collect" /\ Top(pre) = 1
        /\ pre.stages[1].kind = "take") =>
       LET m == Min(Max(pre.stages[1].n, 0), Len(pre.src)) IN
       /\ result.val = SubSeq(pre.src, 1, m)
       /\ pipe.pos = m

SkipTakeLaw ==
  (nops = 1 /\ result.op = "collect" /\ Top(pre) = 2
     /\ pre.stages[1].kind = "skip" /\ pre.stages[2].kind = "take"
     /\ pre.stages[1].n >= 0 /\ pre.stages[2].n >= 0) =>
    LET a == pre.stages[1].n
        b == pre.stages[2].n
    IN result.val = SubSeq(pre.src, a + 1, Min(a + b, Len(pre.src)))

SkipTakeLawWitness ==
  /\ nops = 1
  /\ result.op = "collect"
  /\ chain = <<Call("skip", 1, 0, ""), Call("take", 1, 0, "")>>
  /\ Len(pre.src) = MaxLen
  /\ result.val = <<pre.src[2]>>

\* C5: a chunk(size) stage with size <= 0 yields no chunk.
ChunkRejectsBadSize ==
  \A k \in 1..Top(pipe) :
    (pipe.stages[k].kind = "chunk" /\ pipe.stages[k].n <= 0) =>
      pipe.stages[k].out = 0

\* C6 as written: the value lists of group_by, concatenated in key order, are
\* the sequence that was grouped.
GroupByReproducesS ==
  result.op = "group_by" =>
    Flatten([j \in 1..Len(result.val) |-> result.val[j].items]) = Input

\* C6 amended: the keys of group_by are the distinct keys in first-occurrence
\* order, and the value list of a key is the subsequence of the elements
\* with that key, in their original order; so the lists hold as many
\* elements as the sequence, none lost and none duplicated.
GroupByPartition ==
  result.op = "group_by" =>
    LET d == result.val
        keys == [j \in 1..Len(Input) |-> Key(result.fn, Input[j])]
    IN /\ [j \in 1..Len(d) |-> d[j].key] = FirstOcc(keys)
       /\ \A j \in 1..Len(d) : d[j].items = Having(Input, result.fn, d[j].key)
       /\ Len(Flatten([j \in 1..Len(d) |-> d[j].items])) = Len(Input)

GroupByPartitionWitness ==
  /\ result.op = "group_by"
  /\ result.fn = "parity"
  /\ Len(Input) = MaxLen
  /\ Len(result.val) = 2
  /\ Flatten([j \in 1..Len(result.val) |-> result.val[j].items]) # Input

\* C7: any(p) is true iff some element satisfies p and takes the elements up
\* to and including the first that does; all(p) is false iff some element
\* fails p and takes the elements up to and including the first that does;
\* otherwise both take every element, so any() of an empty sequence is false
\* and all(p) of one is true.
AnyAllShortCircuit ==
  /\ result.op = "any" =>
       LET j == FirstAt(Input, result.fn, TRUE) IN
       /\ result.val = (j # 0)
       /\ Consumed = (IF j = 0 THEN Len(Input) ELSE j)
       /\ Input = <<>> => result.val = FALSE
  /\ result.op = "all" =>
       LET j == FirstAt(Input, result.fn, FALSE) IN
       /\ result.val = (j = 0)
       /\ Consumed = (IF j = 0 THEN Len(Input) ELSE j)
       /\ Input = <<>> => result.val = TRUE

AnyAllShortCircuitWitness ==
  /\ result.op = "any"
  /\ result.fn = "positive"
  /\ result.val = TRUE
  /\ Len(Input) = MaxLen
  /\ Consumed = 2

\* C8: S.paginate(page, per_page).collect(), page >= 1 and per_page >= 0, is
\* the list of the elements of S at the zero-based positions
\* (page-1)*per_page .. page*per_page-1 that exist, the empty list when the
\* page lies beyond S, and is what skip((page-1)*per_page).take(per_page)
\* collects.
PaginateLaw ==
  (nops = 1 /\ result.op = "collect" /\ Top(pre) = 2
     /\ chain[Len(chain)].op = "paginate") =>
    LET page == chain[Len(chain)].a
        per_page == chain[Len(chain)].b
        S == pre.src
        base == LazyCollection(S, pre.restartable)
    IN /\ result.val
            = SubSeq(S, (page - 1) * per_page + 1, Min(page * per_page, Len(S)))
       /\ result.val
            = collect(take(skip(base, (page - 1) * per_page), per_page)).val
       /\ (page - 1) * per_page >= Len(S) => result.val = <<>>

PaginateLawWitness ==
  /\ nops = 1
  /\ result.op = "collect"
  /\ chain = <<Call("paginate", 2, 2, "")>>
  /\ Len(pre.src) = 3
  /\ result.val = <<pre.src[3]>>

\* C9: what one iteration of a distinct() collection recorded as seen does
\* not suppress elements in a later iteration of it: collecting distinct()
\* over a source returns the first occurrences of the source elements that
\* were not yet pulled when the collect started.
DistinctSeenPerIteration ==
  (result.op = "collect" /\ Top(pre) = 1 /\ pre.stages[1].kind = "distinct") =>
    result.val = FirstOcc(SourceRest(pre))

\* C10: S.chunk(size).collect(), size >= 1, is a list of non-empty groups
\* whose concatenation is S, every group but the last of exactly size
\* elements and the last of 1 to size elements; an empty S gives no group.
ChunkLaw ==
  (nops = 1 /\ result.op = "collect" /\ Top(pre) = 1
     /\ pre.stages[1].kind = "chunk" /\ pre.stages[1].n >= 1) =>
    LET g == result.val
        size == pre.stages[1].n
    IN /\ Flatten(g) = pre.src
       /\ \A j \in 1..Len(g) : Len(g[j]) >= 1 /\ Len(g[j]) <= size
       /\ \A j \in 1..(Len(g) - 1) : Len(g[j]) = size
       /\ pre.src = <<>> => g = <<>>

ChunkLawWitness ==
  /\ nops = 1
  /\ result.op = "collect"
  /\ chain = <<Call("chunk", 2, 0, "")>>
  /\ pre.src = range(-RangeN, <<RangeN + 1>>, 1)
  /\ result.val = <<<<-2, -1>>, <<0, 1>>, <<2>>>>

====
